---------------------------- MODULE Spec2Model ----------------------------
(***************************************************************************)
(* A model of the height-field terrain demo: FPSController                 *)
(* (src/src/utils/controller.js), main() and its frame loop                *)
(* (src/src/main.js), TerrainBuilder (src/src/utils/terrain.js) and the    *)
(* height samplers (src/src/utils/heightmap.js).                           *)
(*                                                                         *)
(* Units of the controller part.  Time is counted in ticks of 0.05 s,      *)
(* velocities in units of 0.05 m/s and lengths in units of 0.0025 m, so    *)
(* that velocity * dt is a length and every constant of the controller is  *)
(* an integer: GRAVITY * dt = -25 m/s^2 * 0.05 s = -1.25 m/s = -25 units   *)
(* per tick.  The yaw is counted in quarter turns (sin and cos are exact   *)
(* there), the pitch in units of 0.7 rad.                                  *)
(***************************************************************************)
EXTENDS Integers, Sequences, FiniteSets, TLC

VARIABLES
    \* ---- main() ----
    mainPc,        \* position of main() (or "api" when the controller is driven directly)
    promise,       \* the promise of loadHeightmap: "none", "pending", "resolved", "rejected"
    image,         \* the height source: [outcome, handled]: what the image element will
                   \* deliver and, once its load or error handler has run, "ok" or "failed"
    heightData,    \* "unset", "image" or "procedural"
    terrainBuilt,  \* the TerrainBuilder has been constructed
    \* ---- FPSController ----
    keys, yaw, pitch, locked,
    velY, isGrounded, jumpCooldown,
    translation,   \* body.translation(): the position committed by the last world step
    nextTrans,     \* the body's next kinematic translation
    pending,       \* setNextKinematicTranslation was called since the last world step
    camera,        \* [position, order, rotY, rotX]
    frame,         \* what the last step, update or setPosition did: name, inputs, locals, result
    sinceJump,     \* ticks of dt passed to update since the last jump trigger; -1: no jump yet
    \* ---- TerrainBuilder and the height samplers ----
    tb,            \* the TerrainBuilder instance: the fields its constructor sets
    noise,         \* [size, raw]: the argument of generateProceduralHeightmap and the
                   \* values fractalNoise returns for its samples, row-major
    out            \* the last call on the terrain or the generator: name, arguments, result

ctlVars  == <<keys, yaw, pitch, locked, velY, isGrounded, jumpCooldown,
              translation, nextTrans, pending, camera, frame, sinceJump>>
mainVars == <<mainPc, promise, image, heightData, terrainBuilt>>
terrVars == <<tb, noise, out>>
vars     == <<mainVars, ctlVars, terrVars>>

---------------------------------------------------------------------------
(* Bounds of the model *)

\* update(dt) is called with dt in 1..MaxDt ticks
MaxDt == 2
\* the body stays within MaxTravel length units of the spawn point on every axis
MaxTravel == 200
\* |yaw| <= MaxYaw quarter turns
MaxYaw == 1
\* the fall is followed until velY reaches GRAVITY * MaxFallTicks
MaxFallTicks == 6

(* Constants of the controller, in the model's units *)
MOVE_SPEED      == 160    \* 8 m/s
SPRINT_MULT_X10 == 18     \* 1.8
JUMP_FORCE      == 180    \* 9 m/s
GRAVITY         == -25    \* -25 m/s^2, per tick
EYE_HEIGHT      == 480    \* 1.2 m
GROUND_VEL      == -40    \* -2 m/s
JUMP_COOLDOWN   == 8      \* 0.4 s
PITCH_LIMIT     == 2      \* 1.4 rad
SPAWN_Y         == 12000  \* 30 m
MAX_FRAME_DT    == 1      \* 0.05 s

Keys == {"Space", "KeyW", "ShiftLeft"}

Vec(a, b, c) == [x |-> a, y |-> b, z |-> c]
Zero3 == Vec(0, 0, 0)
AddVec(u, v) == Vec(u.x + v.x, u.y + v.y, u.z + v.z)
Spawn == Vec(0, SPAWN_Y, 0)

Max(a, b) == IF a >= b THEN a ELSE b
Min(a, b) == IF a <= b THEN a ELSE b

\* sin and cos of a yaw given in quarter turns
SinQ(q) == CASE q % 4 = 0 -> 0 [] q % 4 = 1 -> 1 [] q % 4 = 2 -> 0 [] OTHER -> -1
CosQ(q) == CASE q % 4 = 0 -> 1 [] q % 4 = 1 -> 0 [] q % 4 = 2 -> -1 [] OTHER -> 0

InWindow(p) ==
    /\ p.x \in -MaxTravel..MaxTravel
    /\ p.y \in (SPAWN_Y - MaxTravel)..(SPAWN_Y + MaxTravel)
    /\ p.z \in -MaxTravel..MaxTravel

---------------------------------------------------------------------------
(* JavaScript numbers.  A number is a pair <<n, d>>: the binary floating-   *)
(* point value n / d with d a power of two and n odd (or <<0, 1>>); d = 0   *)
(* marks the values that are not finite: <<1, 0>> is Infinity, <<-1, 0>>    *)
(* -Infinity and <<0, 0>> NaN.  Every operation rounds its exact result to  *)
(* the nearest number of the precision, ties to even, as IEEE 754 does; the *)
(* precisions are DoubleBits for a Number and FloatBits for an element of a *)
(* Float32Array, cut down from 53 and 24 bits to what 32-bit integers can   *)
(* carry.  Exponents are not bounded: nothing here overflows.               *)

\* bits of precision of a Number (a double)
DoubleBits == 8
\* bits of precision of a Float32Array element
FloatBits == 4

NaN == <<0, 0>>
PosInf == <<1, 0>>
NegInf == <<-1, 0>>
IsFinite(x) == x[2] > 0

Abs(i) == IF i < 0 THEN -i ELSE i
Sign(i) == IF i < 0 THEN -1 ELSE IF i > 0 THEN 1 ELSE 0

RECURSIVE Norm(_, _)
\* n / d in lowest terms, d a power of two
Norm(n, d) ==
    IF n = 0 THEN <<0, 1>>
    ELSE IF d > 1 /\ n % 2 = 0 THEN Norm(n \div 2, d \div 2)
    ELSE <<n, d>>

RECURSIVE RoundPos(_, _, _, _)
\* a / d * 2^e (a, d > 0) rounded to `bits` bits, ties to even
RoundPos(bits, a, d, e) ==
    IF a >= d * 2^bits THEN RoundPos(bits, a, 2 * d, e + 1)
    ELSE IF a < d * 2^(bits - 1) THEN RoundPos(bits, 2 * a, d, e - 1)
    ELSE LET q == a \div d
             r == a % d
             m == IF 2 * r > d \/ (2 * r = d /\ q % 2 = 1) THEN q + 1 ELSE q
         IN  IF e >= 0 THEN Norm(m * 2^e, 1) ELSE Norm(m, 2^(-e))

\* the rational n / d * 2^e (d > 0) rounded to `bits` bits
Round(bits, n, d, e) ==
    IF n = 0 THEN <<0, 1>>
    ELSE LET r == RoundPos(bits, Abs(n), d, e) IN <<Sign(n) * r[1], r[2]>>

RECURSIVE Log2(_)
\* k for d = 2^k
Log2(d) == IF d <= 1 THEN 0 ELSE 1 + Log2(d \div 2)

FromInt(i) == Round(DoubleBits, i, 1, 0)

\* x + y, x - y, x * y, x / y on Numbers (there is no negative zero here)
FAdd(x, y) ==
    IF IsFinite(x) /\ IsFinite(y)
    THEN LET d == Max(x[2], y[2])
         IN  Round(DoubleBits, x[1] * (d \div x[2]) + y[1] * (d \div y[2]), 1, -Log2(d))
    ELSE IF x = NaN \/ y = NaN THEN NaN
    ELSE IF IsFinite(y) THEN x
    ELSE IF IsFinite(x) \/ x = y THEN y
    ELSE NaN
FNeg(x) == <<-x[1], x[2]>>
FSub(x, y) == FAdd(x, FNeg(y))
FMul(x, y) ==
    IF IsFinite(x) /\ IsFinite(y)
    THEN Round(DoubleBits, x[1] * y[1], 1, -(Log2(x[2]) + Log2(y[2])))
    ELSE IF x = NaN \/ y = NaN \/ x[1] = 0 \/ y[1] = 0 THEN NaN
    ELSE <<Sign(x[1]) * Sign(y[1]), 0>>
FDiv(x, y) ==
    IF IsFinite(x) /\ IsFinite(y)
    THEN IF y[1] = 0 THEN <<Sign(x[1]), 0>>
         ELSE Round(DoubleBits, Sign(y[1]) * x[1], Abs(y[1]), Log2(y[2]) - Log2(x[2]))
    ELSE IF x = NaN \/ y = NaN \/ ~(IsFinite(x) \/ IsFinite(y)) THEN NaN
    ELSE IF IsFinite(x) THEN <<0, 1>>
    ELSE <<Sign(x[1]) * (IF y[1] < 0 THEN -1 ELSE 1), 0>>

\* comparisons of Numbers; false when one is NaN
FLe(x, y) ==
    IF IsFinite(x) /\ IsFinite(y) THEN x[1] * y[2] <= y[1] * x[2]
    ELSE x # NaN /\ y # NaN /\ (x = y \/ x = NegInf \/ y = PosInf)
FLt(x, y) == FLe(x, y) /\ x # y

\* Math.floor of a finite Number, as an integer
FFloor(x) == x[1] \div x[2]

\* the value a Float32Array element takes when x is stored in it
ToFloat32(x) == IF IsFinite(x) THEN Round(FloatBits, x[1], x[2], 0) ELSE x

RECURSIVE ISqrtIn(_, _, _)
\* the integer r in lo..hi-1 with r * r <= t < (r + 1) * (r + 1)
ISqrtIn(t, lo, hi) ==
    IF hi - lo <= 1 THEN lo
    ELSE LET mid == (lo + hi) \div 2
         IN  IF mid * mid <= t THEN ISqrtIn(t, mid, hi) ELSE ISqrtIn(t, lo, mid)

RECURSIVE SqrtShift(_, _)
\* the least k >= 0 with t * 4^k >= 4^(DoubleBits + 1)
SqrtShift(t, k) == IF t * 4^k >= 4^(DoubleBits + 1) THEN k ELSE SqrtShift(t, k + 1)

\* Math.sqrt of a finite Number >= 0
FSqrt(x) ==
    IF x[1] = 0 THEN <<0, 1>>
    ELSE LET h == (Log2(x[2]) + 1) \div 2     \* n / 4^h = t / 4^h with t = n or 2n
             t == IF Log2(x[2]) % 2 = 0 THEN x[1] ELSE 2 * x[1]
             k == SqrtShift(t, 0)
             s == ISqrtIn(t * 4^k, 0, 2^(DoubleBits + 3))
         IN  IF s * s = t * 4^k
             THEN Round(DoubleBits, s, 1, -(k + h))
             ELSE Round(DoubleBits, 2 * s + 1, 1, -(k + h + 1))

---------------------------------------------------------------------------
(* FPSController.update, piece by piece *)

\* this.jumpCooldown after "if (this.jumpCooldown > 0) this.jumpCooldown -= dt"
CooldownAfter(cd, dt) == IF cd > 0 THEN cd - dt ELSE cd

\* speed = MOVE_SPEED * (sprint ? SPRINT_MULT : 1.0)
Speed(sprint) == IF sprint THEN (MOVE_SPEED * SPRINT_MULT_X10) \div 10 ELSE MOVE_SPEED

\* this._mov: only KeyW is ever pressed among the movement keys, so the vector
\* stays on the forward axis and normalize() is exact
Mov(k, y, speed) ==
    LET fwd == Vec(-SinQ(y), 0, -CosQ(y))
        m   == IF k["KeyW"] THEN fwd ELSE Zero3
        lengthSq == m.x * m.x + m.y * m.y + m.z * m.z
    IN  IF lengthSq > 0 THEN Vec(m.x * speed, m.y * speed, m.z * speed) ELSE m

GroundClamp_NoClamp(grounded, v) == v

\* if (this.isGrounded && this.velY < 0) this.velY = -2
GroundClamp(grounded, v) == IF grounded /\ v < 0 THEN GROUND_VEL ELSE v

JumpTriggered_NoCooldown(space, grounded, cd) == space /\ grounded

\* this.keys['Space'] && this.isGrounded && this.jumpCooldown <= 0
JumpTriggered(space, grounded, cd) == space /\ grounded /\ cd <= 0

NextTranslation_OnPending(cur, corr) == AddVec(nextTrans, corr)

\* the argument of body.setNextKinematicTranslation in update
NextTranslation(cur, corr) == AddVec(cur, corr)

\* what controller.computedMovement() may return for a desired displacement: the
\* resolver is a black box; it lets the movement through, stops its vertical
\* part (ground, ceiling), or stops it altogether
ResolverMoves(des) == {des, Vec(des.x, 0, des.z), Zero3}

\* update(dt) with body.translation() = cur
Update(cur, dt) ==
    LET cd1   == CooldownAfter(jumpCooldown, dt)
        speed == Speed(keys["ShiftLeft"])
        mov   == Mov(keys, yaw, speed)
        v1    == velY + GRAVITY * dt
        v2    == GroundClamp(isGrounded, v1)
        jump  == JumpTriggered(keys["Space"], isGrounded, cd1)
        v3    == IF jump THEN JUMP_FORCE ELSE v2
        cd2   == IF jump THEN JUMP_COOLDOWN ELSE cd1
        des   == Vec(mov.x * dt, v3 * dt, mov.z * dt)
    IN  \E corr \in ResolverMoves(des), grounded \in BOOLEAN :
          LET nxt == NextTranslation(cur, corr)
              pos == cur
          IN  /\ InWindow(nxt)
              /\ v3 >= GRAVITY * MaxFallTicks
              /\ velY' = v3
              /\ jumpCooldown' = cd2
              /\ isGrounded' = grounded
              /\ nextTrans' = nxt
              /\ pending' = TRUE
              /\ camera' = [position |-> Vec(pos.x, pos.y + EYE_HEIGHT, pos.z),
                            order |-> "YXZ", rotY |-> yaw, rotX |-> pitch]
              /\ sinceJump' = IF jump THEN 0
                              ELSE IF sinceJump < 0 THEN sinceJump
                              ELSE Min(sinceJump + dt, JUMP_COOLDOWN + MaxDt)
              /\ frame' = [op |-> "update", dt |-> dt, cur |-> cur,
                           integrated |-> v1, jump |-> jump,
                           wasGrounded |-> isGrounded, space |-> keys["Space"],
                           cooldown |-> cd1, sincePrev |-> IF sinceJump < 0 THEN -1
                                          ELSE Min(sinceJump + dt, JUMP_COOLDOWN + MaxDt),
                           desired |-> des, corrected |-> corr,
                           target |-> nxt,
                           ret |-> [position |-> pos,
                                    speed |-> IF mov = Zero3 THEN 0 ELSE speed,
                                    grounded |-> grounded]]
              /\ UNCHANGED <<keys, yaw, pitch, locked>>

NoFrame == [op |-> "none"]

\* the state after new FPSController(...)
CtlInit ==
    /\ keys = [k \in Keys |-> FALSE]
    /\ yaw = 0 /\ pitch = 0 /\ locked = FALSE
    /\ velY = 0 /\ isGrounded = FALSE /\ jumpCooldown = 0
    /\ translation = Spawn /\ nextTrans = Spawn /\ pending = FALSE
    /\ camera = [position |-> Zero3, order |-> "XYZ", rotY |-> 0, rotX |-> 0]
    /\ frame = NoFrame
    /\ sinceJump = -1

\* the keydown and keyup listeners
KeyDown(k) ==
    /\ keys' = [keys EXCEPT ![k] = TRUE]
    /\ UNCHANGED <<yaw, pitch, locked, velY, isGrounded, jumpCooldown,
                   translation, nextTrans, pending, camera, frame, sinceJump>>

KeyUp(k) ==
    /\ keys' = [keys EXCEPT ![k] = FALSE]
    /\ UNCHANGED <<yaw, pitch, locked, velY, isGrounded, jumpCooldown,
                   translation, nextTrans, pending, camera, frame, sinceJump>>

\* the mousemove listener: mx in quarter turns, my in units of 0.7 rad
MouseMove(mx, my) ==
    /\ locked
    /\ yaw - mx \in -MaxYaw..MaxYaw
    /\ yaw' = yaw - mx
    /\ pitch' = Max(-PITCH_LIMIT, Min(PITCH_LIMIT, pitch - my))
    /\ UNCHANGED <<keys, locked, velY, isGrounded, jumpCooldown,
                   translation, nextTrans, pending, camera, frame, sinceJump>>

\* the pointerlockchange listener
PointerLockChange(l) ==
    /\ locked' = l
    /\ UNCHANGED <<keys, yaw, pitch, velY, isGrounded, jumpCooldown,
                   translation, nextTrans, pending, camera, frame, sinceJump>>

\* world.step(): the kinematic body moves to its next kinematic translation
WorldStep ==
    /\ translation' = nextTrans
    /\ pending' = FALSE
    /\ frame' = [op |-> "step", was |-> translation, committed |-> nextTrans]
    /\ UNCHANGED <<keys, yaw, pitch, locked, velY, isGrounded, jumpCooldown,
                   nextTrans, camera, sinceJump>>

\* setPosition(x, y, z)
SetPosition(p) ==
    /\ nextTrans' = p
    /\ pending' = TRUE
    /\ velY' = 0
    /\ frame' = [op |-> "setPosition", target |-> p]
    /\ UNCHANGED <<keys, yaw, pitch, locked, isGrounded, jumpCooldown,
                   translation, camera, sinceJump>>

\* update(dt) called on the controller
CallUpdate(dt) == Update(translation, dt) /\ UNCHANGED translation

NoImage == [outcome |-> "none", handled |-> FALSE]

MainIdle ==
    /\ mainPc = "api" /\ promise = "none" /\ image = NoImage
    /\ heightData = "unset" /\ terrainBuilt = FALSE

\* no terrain object is under study
NoTerrain == [size |-> 0]
NoNoise == [size |-> 0, raw |-> <<>>]
NoCall == [op |-> "none"]
TerrainIdle == tb = NoTerrain /\ noise = NoNoise /\ out = NoCall

---------------------------------------------------------------------------
(* The controller under any sequence of key events and update(dt) calls *)

JumpInit == MainIdle /\ CtlInit /\ TerrainIdle

JumpNext ==
    \/ \E k \in {"Space"} : KeyDown(k) /\ UNCHANGED <<mainVars, terrVars>>
    \/ \E k \in {"Space"} : KeyUp(k) /\ UNCHANGED <<mainVars, terrVars>>
    \/ \E dt \in 1..MaxDt : CallUpdate(dt) /\ UNCHANGED <<mainVars, terrVars>>

SpecJump == JumpInit /\ [][JumpNext]_vars

---------------------------------------------------------------------------
(* main(): start-up, then the frame loop *)

\* what can become of the request for /heightmap.png: it loads and its pixels are
\* read; it loads and reading its pixels throws inside the onload handler; or the
\* image element reports an error (network failure, decode failure, unsupported
\* format)
ImageOutcomes == {"ok", "pixelsThrow", "network", "decode", "unsupported"}
ImageErrors   == {"network", "decode", "unsupported"}

\* await RAPIER.init()
RapierInit ==
    /\ mainPc = "start"
    /\ \E ok \in BOOLEAN : mainPc' = IF ok THEN "load" ELSE "error"
    /\ UNCHANGED <<promise, image, heightData, terrainBuilt, ctlVars, terrVars>>

\* loadHeightmap('/heightmap.png', 101): creates the promise and the image, sets
\* onload, onerror and src; main awaits the promise
StartLoad ==
    /\ mainPc = "load"
    /\ mainPc' = "awaitImage"
    /\ promise' = "pending"
    /\ \E o \in ImageOutcomes : image' = [outcome |-> o, handled |-> FALSE]
    /\ UNCHANGED <<heightData, terrainBuilt, ctlVars, terrVars>>

\* img.onload: reads the pixels and resolves; an exception thrown while doing so
\* leaves the handler without settling the promise
ImgOnLoad ==
    /\ promise = "pending" /\ ~image.handled
    /\ image.outcome \in {"ok", "pixelsThrow"}
    /\ image' = [outcome |-> IF image.outcome = "ok" THEN "ok" ELSE "failed", handled |-> TRUE]
    /\ promise' = IF image.outcome = "ok" THEN "resolved" ELSE promise
    /\ UNCHANGED <<mainPc, heightData, terrainBuilt, ctlVars, terrVars>>

\* img.onerror = reject
ImgOnError ==
    /\ promise = "pending" /\ ~image.handled
    /\ image.outcome \in ImageErrors
    /\ image' = [outcome |-> "failed", handled |-> TRUE]
    /\ promise' = "rejected"
    /\ UNCHANGED <<mainPc, heightData, terrainBuilt, ctlVars, terrVars>>

\* main resumes after the await: heightData from the image, or in the catch
\* branch from generateProceduralHeightmap(101)
ResumeLoad ==
    /\ mainPc = "awaitImage"
    /\ promise \in {"resolved", "rejected"}
    /\ heightData' = IF promise = "resolved" THEN "image" ELSE "procedural"
    /\ mainPc' = "buildTerrain"
    /\ UNCHANGED <<promise, image, terrainBuilt, ctlVars, terrVars>>

\* new TerrainBuilder({heights: heightData.heights, size: heightData.size, ...})
BuildTerrain ==
    /\ mainPc = "buildTerrain"
    /\ terrainBuilt' = TRUE
    /\ mainPc' = "setup"
    /\ UNCHANGED <<promise, image, heightData, ctlVars, terrVars>>

\* renderer, lights, mesh, physics world, collider and new FPSController, up to
\* the await of the 500 ms timer
Setup ==
    /\ mainPc = "setup"
    /\ mainPc' = "ready"
    /\ UNCHANGED <<promise, image, heightData, terrainBuilt, ctlVars, terrVars>>

\* the timer fires: loop() is called for the first time
StartLoop ==
    /\ mainPc = "ready"
    /\ mainPc' = "loop"
    /\ UNCHANGED <<promise, image, heightData, terrainBuilt, ctlVars, terrVars>>

\* one call of loop(): world.step(), then player.update(dt)
LoopFrame(dt) ==
    /\ mainPc = "loop"
    /\ translation' = nextTrans
    /\ Update(nextTrans, dt)
    /\ UNCHANGED <<mainVars, terrVars>>

\* the listeners exist once the controller has been constructed
Listening == mainPc \in {"ready", "loop"}

MainInit ==
    /\ mainPc = "start" /\ promise = "none" /\ image = NoImage
    /\ heightData = "unset" /\ terrainBuilt = FALSE
    /\ CtlInit
    /\ TerrainIdle

MainNext ==
    \/ RapierInit
    \/ StartLoad
    \/ ImgOnLoad
    \/ ImgOnError
    \/ ResumeLoad
    \/ BuildTerrain
    \/ Setup
    \/ StartLoop
    \/ \E dt \in 0..MAX_FRAME_DT : LoopFrame(dt)
    \/ \E k \in {"KeyW"} : Listening /\ KeyDown(k) /\ UNCHANGED <<mainVars, terrVars>>
    \/ \E k \in {"KeyW"} : Listening /\ KeyUp(k) /\ UNCHANGED <<mainVars, terrVars>>
    \/ \E mx \in {1}, my \in {3} : Listening /\ MouseMove(mx, my) /\ UNCHANGED <<mainVars, terrVars>>
    \/ \E l \in BOOLEAN : Listening /\ PointerLockChange(l) /\ UNCHANGED <<mainVars, terrVars>>

SpecMain == MainInit /\ [][MainNext]_vars

---------------------------------------------------------------------------
(* The controller under any interleaving of input events, world.step(),    *)
(* update(dt) and setPosition(x, y, z)                                     *)

\* the positions setPosition is called with
Teleports == {Vec(0, SPAWN_Y - 100, 0), Vec(40, SPAWN_Y, -40)}

PoseInit == MainIdle /\ CtlInit /\ TerrainIdle

PoseNext ==
    \/ \E k \in {"KeyW"} : KeyDown(k) /\ UNCHANGED <<mainVars, terrVars>>
    \/ \E k \in {"KeyW"} : KeyUp(k) /\ UNCHANGED <<mainVars, terrVars>>
    \/ WorldStep /\ UNCHANGED <<mainVars, terrVars>>
    \/ \E dt \in 1..MAX_FRAME_DT : CallUpdate(dt) /\ UNCHANGED <<mainVars, terrVars>>
    \/ \E p \in Teleports : SetPosition(p) /\ UNCHANGED <<mainVars, terrVars>>

SpecPose == PoseInit /\ [][PoseNext]_vars


\* the last operation was an update that set velY to JUMP_FORCE and the cooldown
\* to 0.4 s (an update without a jump leaves velY below JUMP_FORCE)
JumpedNow == frame.op = "update" /\ velY = JUMP_FORCE /\ jumpCooldown = JUMP_COOLDOWN

\* C1: an update triggers a jump (velY = JUMP_FORCE, jumpCooldown = 0.4 s, whatever
\* gravity integrated) exactly when Space is held, isGrounded is true and the
\* decremented jumpCooldown is <= 0; never while isGrounded is false; and the dt of
\* the updates from the one after a jump to the next jump sum to at least 0.4 s
C1_JumpOnlyWhenAllowed ==
    frame.op = "update" =>
        /\ JumpedNow <=> (frame.space /\ frame.wasGrounded /\ frame.cooldown <= 0)
        /\ JumpedNow => frame.wasGrounded
        /\ (JumpedNow /\ frame.sincePrev >= 0) => frame.sincePrev >= JUMP_COOLDOWN
        /\ ~JumpedNow => velY < JUMP_FORCE

\* a second jump has been triggered with Space held, after an earlier one
C1_Witness == JumpedNow /\ frame.sincePrev >= JUMP_COOLDOWN /\ frame.integrated < JUMP_FORCE + GRAVITY

\* C2 as stated: in every grounded frame with no jump input the desired vertical
\* displacement is exactly -2 * dt
C2_GroundedFramesDescendAtTwo ==
    (frame.op = "update" /\ frame.wasGrounded /\ ~frame.space) =>
        frame.desired.y = GROUND_VEL * frame.dt

\* C2 amended: an update that starts grounded uses velY >= -2, exactly -2 (desired
\* vertical displacement -2 * dt) when the integrated velocity is negative and no
\* jump is triggered; when the integrated velocity is not negative (the frames after
\* a jump that the resolver still reports as grounded) it is kept unclamped
C2_GroundedVelocityClamped ==
    (frame.op = "update" /\ frame.wasGrounded) =>
        /\ velY >= GROUND_VEL
        /\ (frame.integrated < 0 /\ ~JumpedNow) =>
              (velY = GROUND_VEL /\ frame.desired.y = GROUND_VEL * frame.dt)
        /\ (frame.integrated >= 0 /\ ~JumpedNow) =>
              (velY = frame.integrated /\ frame.desired.y = frame.integrated * frame.dt)

\* a grounded frame without jump whose velocity was clamped to -2
C2_Witness ==
    /\ frame.op = "update" /\ frame.wasGrounded /\ ~JumpedNow
    /\ frame.integrated < GROUND_VEL /\ velY = GROUND_VEL
    /\ frame.desired.y = GROUND_VEL * frame.dt


\* C9 as stated: once update or setPosition has set the body's next translation,
\* nothing replaces it before the next world step commits it
C9_NothingOverwritten == [][pending => nextTrans' = nextTrans]_vars

\* C9 amended: the position changes only in world.step(), to the next translation
\* set last; update sets it to the position at that update plus the corrected
\* displacement, setPosition to (x, y, z), also setting velY to 0; nothing else
\* sets it; so what is set is committed when world.step() runs before the next
\* update or setPosition (as in loop()), and replaced by the later call otherwise
C9_PositionChanges ==
    [][ /\ translation' # translation =>
              (frame'.op = "step" /\ translation' = nextTrans /\ nextTrans' = nextTrans)
        /\ (frame' # frame /\ frame'.op = "step") =>
              (translation' = nextTrans /\ ~pending')
        /\ (frame' # frame /\ frame'.op = "update") =>
              /\ nextTrans' = AddVec(translation, frame'.corrected)
              /\ translation' = translation /\ pending'
        /\ (frame' # frame /\ frame'.op = "setPosition") =>
              /\ nextTrans' = frame'.target /\ velY' = 0
              /\ translation' = translation /\ pending'
        /\ frame' = frame => nextTrans' = nextTrans /\ translation' = translation
      ]_vars

\* a world step has committed a corrected displacement that an update had added
\* to a position reached by a teleport
C9_Witness ==
    /\ frame.op = "step" /\ frame.committed # frame.was
    /\ translation = frame.committed
    /\ translation.x = 40 /\ translation.y < SPAWN_Y


\* main() waits at "await loadHeightmap" for a promise that nothing will settle
WaitsForever == mainPc = "awaitImage" /\ promise = "pending" /\ image.handled

\* C3: every failure of the image source leads to the procedural heightmap;
\* heightData is assigned before the TerrainBuilder is constructed and before the
\* first frame; an image failure neither ends main() in its error path nor leaves
\* it waiting forever
C3_ImageFailureFallsBack ==
    /\ ~WaitsForever
    /\ (image.outcome \notin {"none", "ok"} /\ image.handled) => promise = "rejected"
    /\ (image.outcome \notin {"none", "ok"} /\ heightData # "unset") => heightData = "procedural"
    /\ (terrainBuilt \/ mainPc = "loop") => heightData # "unset"
    /\ image.outcome \notin {"none", "ok"} => mainPc # "error"

\* C10: after every update the camera is at the actor's position with that
\* update's corrected displacement applied, plus the eye height, and so is the
\* returned position (without the eye height); the order is 'YXZ', rotation.y is
\* the yaw and rotation.x the pitch
C10_CameraAtUpdatedPosition ==
    frame.op = "update" =>
        /\ camera.position = AddVec(AddVec(frame.cur, frame.corrected), Vec(0, EYE_HEIGHT, 0))
        /\ frame.ret.position = AddVec(frame.cur, frame.corrected)
        /\ camera.order = "YXZ" /\ camera.rotY = yaw /\ camera.rotX = pitch

---------------------------------------------------------------------------
(* TerrainBuilder (src/src/utils/terrain.js).  Typed arrays are sequences   *)
(* read and written by 0-based index.                                       *)

\* largest grid size of the terrain queries
MaxSize == 6

Zero == <<0, 1>>
One == <<1, 1>>
Two == <<2, 1>>
Half == <<1, 2>>

\* new Float32Array(n), new Uint32Array(n)
ZeroArray(n) == [i \in 1..n |-> Zero]
ZeroIndices(n) == [i \in 1..n |-> 0]
InRange(a, i) == i \in 0..(Len(a) - 1)
\* a[i]; outside the array the read gives undefined, NaN in arithmetic
ReadAt(a, i) == IF InRange(a, i) THEN a[i + 1] ELSE NaN
\* a[i] = v on a Float32Array; a write outside the array is dropped
StoreAt(a, i, v) == IF InRange(a, i) THEN [a EXCEPT ![i + 1] = ToFloat32(v)] ELSE a
\* a[i] = v on a Uint32Array
StoreIndex(a, i, v) == IF InRange(a, i) THEN [a EXCEPT ![i + 1] = v] ELSE a

\* the element of a set of one element.  Written Only({F(v) : v \in {e}}), it
\* is F(e) with e evaluated first: the statements of the source run in order
Only(S) == CHOOSE v \in S : TRUE

\* the constructor
TerrainBuilder(heights, size, worldSize, heightScale, heightOffset) ==
    [heights |-> heights, size |-> size, cols |-> size - 1,
     worldSize |-> worldSize, heightScale |-> heightScale,
     heightOffset |-> heightOffset,
     cellSize |-> FDiv(worldSize, FromInt(size - 1))]

Clamp_NoUpper(lo, hi, v) == Max(lo, v)

\* Math.max(lo, Math.min(hi, v))
Clamp(lo, hi, v) == Max(lo, Min(hi, v))

\* the index getHeight reads
HeightIndex(t, row, col) ==
    Clamp(0, t.size - 1, row) * t.size + Clamp(0, t.size - 1, col)

GetHeight(t, row, col) ==
    FAdd(FMul(ReadAt(t.heights, HeightIndex(t, row, col)), t.heightScale),
         t.heightOffset)

WorldToGrid_NoOffset(t, x) == FDiv(x, t.cellSize)

\* (x + this.worldSize / 2) / this.cellSize
WorldToGrid(t, x) == FDiv(FAdd(x, FDiv(t.worldSize, Two)), t.cellSize)

GetHeightAtWorld(t, x, z) ==
    LET gx == WorldToGrid(t, x)
        gz == WorldToGrid(t, z)
        col0 == FFloor(gx)
        row0 == FFloor(gz)
        col1 == col0 + 1
        row1 == row0 + 1
        fx == FSub(gx, FromInt(col0))
        fz == FSub(gz, FromInt(row0))
        h00 == GetHeight(t, row0, col0)
        h10 == GetHeight(t, row0, col1)
        h01 == GetHeight(t, row1, col0)
        h11 == GetHeight(t, row1, col1)
    IN  FAdd(FAdd(FAdd(FMul(FMul(h00, FSub(One, fx)), FSub(One, fz)),
                       FMul(FMul(h10, fx), FSub(One, fz))),
                  FMul(FMul(h01, FSub(One, fx)), fz)),
             FMul(FMul(h11, fx), fz))

\* col * cellSize - worldSize / 2: the world coordinate of a grid line
VertexCoord(t, k) == FSub(FMul(FromInt(k), t.cellSize), FDiv(t.worldSize, Two))

RapierIndex_RowMajor(row, col, size) == row * size + col

\* the slot of the exported array that takes the sample of (row, col)
RapierIndex(row, col, size) == col * size + row

\* one pass of the inner loop body: sample k = row * size + col
RapierStep(t, k, acc) ==
    LET row == k \div t.size
        col == k % t.size
        i == RapierIndex(row, col, t.size)
    IN  [heights |-> StoreAt(acc.heights, i, ReadAt(t.heights, row * t.size + col)),
         writes |-> StoreIndex(acc.writes, i, ReadAt(acc.writes, i) + 1)]

RECURSIVE RapierLoop(_, _, _, _)
\* the loops over the samples lo .. hi-1 in order (the range is split in
\* halves to keep the evaluation shallow)
RapierLoop(t, lo, hi, acc) ==
    IF lo >= hi THEN acc
    ELSE IF hi = lo + 1 THEN RapierStep(t, lo, acc)
    ELSE LET mid == (lo + hi) \div 2
         IN  Only({RapierLoop(t, mid, hi, left) : left \in {RapierLoop(t, lo, mid, acc)}})

\* acc: the exported array and, for each of its slots, how many times the
\* loops wrote it
BuildRapierHeightfield(t) ==
    LET nrows == t.size - 1
        ncols == t.size - 1
        n == (nrows + 1) * (ncols + 1)
        done == RapierLoop(t, 0, t.size * t.size,
                           [heights |-> ZeroArray(n), writes |-> ZeroIndices(n)])
    IN  [nrows |-> nrows, ncols |-> ncols, heights |-> done.heights,
         scale |-> [x |-> t.worldSize, y |-> t.heightScale, z |-> t.worldSize],
         writes |-> done.writes]

\* height grids: flat ones, and ones with a single sample off the level
FlatGrid(size, v) == [i \in 1..(size * size) |-> v]
SpikeGrid(size, k, base, v) == [i \in 1..(size * size) |-> IF i = k THEN v ELSE base]
HeightGrids(size) ==
    {FlatGrid(size, Half)}
        \cup {SpikeGrid(size, k, Zero, One) : k \in 1..(size * size)}
        \cup {SpikeGrid(size, k, One, Zero) : k \in 1..(size * size)}
IsFlat(h) == \A i \in 1..Len(h) : h[i] = h[1]

\* [worldSize, heightScale, heightOffset] of the instances
Placements ==
    {[worldSize |-> FromInt(w), heightScale |-> FromInt(p[1]), heightOffset |-> FromInt(p[2])] :
        w \in {4, 200}, p \in {<<10, 0>>, <<14, 1>>}}

CtlIdle == MainIdle /\ CtlInit

TerrainInit ==
    /\ CtlIdle
    /\ noise = NoNoise /\ out = NoCall
    /\ \E size \in 2..MaxSize : \E h \in HeightGrids(size) : \E p \in Placements :
           tb = TerrainBuilder(h, size, p.worldSize, p.heightScale, p.heightOffset)

\* a call is made when the result of the one before has been taken
CallGetHeight(row, col) ==
    /\ out = NoCall
    /\ out' = [op |-> "getHeight", row |-> row, col |-> col,
               read |-> HeightIndex(tb, row, col),
               ret |-> GetHeight(tb, row, col)]
    /\ UNCHANGED <<tb, noise>>

\* getHeightAtWorld at the world position of the grid vertex (row, col)
CallGetHeightAtVertex(row, col) ==
    LET x == VertexCoord(tb, col)
        z == VertexCoord(tb, row)
    IN  /\ out = NoCall
        /\ out' = [op |-> "getHeightAtWorld", row |-> row, col |-> col,
                   x |-> x, z |-> z, ret |-> GetHeightAtWorld(tb, x, z)]
        /\ UNCHANGED <<tb, noise>>

CallBuildRapierHeightfield ==
    /\ out = NoCall
    /\ out' = [op |-> "buildRapierHeightfield", before |-> tb.heights,
               ret |-> BuildRapierHeightfield(tb)]
    /\ UNCHANGED <<tb, noise>>

\* the caller takes the result
Return ==
    /\ out # NoCall
    /\ out' = NoCall
    /\ UNCHANGED <<tb, noise>>

TerrainNext ==
    \/ \E row \in -1..tb.size, col \in -1..tb.size :
           CallGetHeight(row, col) /\ UNCHANGED <<mainVars, ctlVars>>
    \/ \E row \in 0..(tb.size - 1), col \in 0..(tb.size - 1) :
           CallGetHeightAtVertex(row, col) /\ UNCHANGED <<mainVars, ctlVars>>
    \/ CallBuildRapierHeightfield /\ UNCHANGED <<mainVars, ctlVars>>
    \/ Return /\ UNCHANGED <<mainVars, ctlVars>>

SpecTerrain == TerrainInit /\ [][TerrainNext]_vars

\* C6: getHeight(row, col) for any integers row, col, in the grid or beyond
\* it, is the sample at the clamped indices times heightScale plus
\* heightOffset, and the index it reads lies in 0 .. N*N-1.
C6_GetHeightClamps ==
    out.op = "getHeight" =>
        LET n == tb.size
            r == IF out.row < 0 THEN 0 ELSE IF out.row > n - 1 THEN n - 1 ELSE out.row
            c == IF out.col < 0 THEN 0 ELSE IF out.col > n - 1 THEN n - 1 ELSE out.col
        IN  /\ out.read = r * n + c
            /\ out.read \in 0..(n * n - 1)
            /\ out.ret = FAdd(FMul(tb.heights[r * n + c + 1], tb.heightScale),
                              tb.heightOffset)
            /\ out.ret = GetHeight(tb, r, c)
            /\ IsFinite(out.ret)

\* a query beyond the last row and before the first column of a grid whose
\* corner sample differs from its neighbours
C6_Witness ==
    /\ out.op = "getHeight" /\ out.row > tb.size - 1 /\ out.col < 0
    /\ tb.heights[(tb.size - 1) * tb.size + 1] = One
    /\ ~IsFlat(tb.heights)
    /\ out.ret = FAdd(tb.heightScale, tb.heightOffset)

\* C4: buildRapierHeightfield transposes the grid: exported[col*N+row] is
\* heights[row*N+col]; nrows = ncols = N-1; the exported array has
\* (nrows+1)*(ncols+1) slots, each written once; the scale is (worldSize,
\* heightScale, worldSize); the builder's heights are as before.
C4_ExactTransposition ==
    out.op = "buildRapierHeightfield" =>
        LET n == tb.size
            r == out.ret
        IN  /\ \A row \in 0..(n - 1), col \in 0..(n - 1) :
                   r.heights[col * n + row + 1] = tb.heights[row * n + col + 1]
            /\ r.nrows = n - 1 /\ r.ncols = n - 1
            /\ Len(r.heights) = (r.nrows + 1) * (r.ncols + 1)
            /\ \A i \in 1..Len(r.heights) : r.writes[i] = 1
            /\ r.scale = [x |-> tb.worldSize, y |-> tb.heightScale, z |-> tb.worldSize]
            /\ tb.heights = out.before

\* the export of a grid that is not symmetric: its spike is off the diagonal
C4_Witness ==
    /\ out.op = "buildRapierHeightfield"
    /\ tb.size = 3
    /\ tb.heights[2] = One /\ tb.heights[4] = Zero
    /\ out.ret.heights[4] = One /\ out.ret.heights[2] = Zero

\* C5 as stated: getHeightAtWorld at the world position of every grid vertex
\* (row, col), the last row and column included, equals getHeight(row, col).
C5_ExactAtVertices ==
    out.op = "getHeightAtWorld" => out.ret = GetHeight(tb, out.row, out.col)

\* |x - y| <= num / den for finite Numbers x, y and integers num, den > 0
Within(x, y, num, den) ==
    LET d == Max(x[2], y[2])
    IN  Abs(x[1] * (d \div x[2]) - y[1] * (d \div y[2])) * den <= num * d

\* |heightScale| + |heightOffset|: the largest |getHeight| of samples in [0, 1]
HeightBound(t) == FAdd(<<Abs(t.heightScale[1]), t.heightScale[2]>>,
                       <<Abs(t.heightOffset[1]), t.heightOffset[2]>>)

\* C5: getHeightAtWorld at the world position of every grid vertex (row, col)
\* equals getHeight(row, col) within floating-point tolerance: they differ by
\* at most 8 * N * (|heightScale| + |heightOffset|) * 2^-DoubleBits, and not
\* at all when the grid coordinates of the position come out as exactly col
\* and row.
C5_WithinTolerance ==
    out.op = "getHeightAtWorld" =>
        LET sample == GetHeight(tb, out.row, out.col)
            bound == HeightBound(tb)
            gx == FDiv(FAdd(out.x, FDiv(tb.worldSize, Two)), tb.cellSize)
            gz == FDiv(FAdd(out.z, FDiv(tb.worldSize, Two)), tb.cellSize)
        IN  /\ IsFinite(out.ret)
            /\ Within(out.ret, sample, 8 * tb.size * bound[1], bound[2] * 2^DoubleBits)
            /\ \/ gx # FromInt(out.col)
               \/ gz # FromInt(out.row)
               \/ out.ret = sample

\* the centre of the flat 3 x 3 grid of samples 0.5, worldSize 4, heightScale
\* 10: getHeightAtWorld(0, 0) = 5; and the last vertex of a grid with a spike
\* there, where both neighbours are clamped
C5_Witness ==
    /\ out.op = "getHeightAtWorld"
    /\ \/ /\ tb.size = 3 /\ tb.heights = FlatGrid(3, Half)
          /\ tb.worldSize = FromInt(4) /\ tb.heightScale = FromInt(10)
          /\ tb.heightOffset = Zero
          /\ out.row = 1 /\ out.col = 1 /\ out.x = Zero /\ out.z = Zero
          /\ out.ret = FromInt(5)
       \/ /\ tb.size = MaxSize /\ out.row = tb.size - 1 /\ out.col = tb.size - 1
          /\ tb.heights = SpikeGrid(tb.size, tb.size * tb.size, Zero, One)
          /\ out.ret # Zero

---------------------------------------------------------------------------
(* TerrainBuilder.buildMesh.  THREE.Vector3 holds Numbers; the attribute    *)
(* arrays are Float32Arrays, the index array a Uint32Array.                 *)

\* largest grid size of the mesh builds
MaxMeshSize == 4

\* a decimal literal n / d of the source
Dec(n, d) == Round(DoubleBits, n, d, 0)

\* Vector3.fromArray, subVectors, crossVectors, length, multiplyScalar
FromArray(a, o) == Vec(ReadAt(a, o), ReadAt(a, o + 1), ReadAt(a, o + 2))
SubVectors(a, b) == Vec(FSub(a.x, b.x), FSub(a.y, b.y), FSub(a.z, b.z))
CrossVectors(a, b) ==
    Vec(FSub(FMul(a.y, b.z), FMul(a.z, b.y)),
        FSub(FMul(a.z, b.x), FMul(a.x, b.z)),
        FSub(FMul(a.x, b.y), FMul(a.y, b.x)))
Length(v) == FSqrt(FAdd(FAdd(FMul(v.x, v.x), FMul(v.y, v.y)), FMul(v.z, v.z)))
MultiplyScalar(v, k) == Vec(FMul(v.x, k), FMul(v.y, k), FMul(v.z, k))
\* Vector3.normalize: divideScalar(length() || 1), a multiplication by 1 / length
Normalize(v) ==
    LET len == Length(v)
    IN  MultiplyScalar(v, FDiv(One, IF len = Zero \/ len = NaN THEN One ELSE len))

\* the colour of a vertex from its sample t
VertexColor(t) ==
    IF FLt(t, Dec(3, 10))
    THEN LET k == FDiv(t, Dec(3, 10))
         IN  <<FAdd(Dec(35, 100), FMul(k, Dec(15, 100))),
               FAdd(Dec(22, 100), FMul(k, Dec(18, 100))),
               Dec(10, 100)>>
    ELSE IF FLt(t, Dec(65, 100))
    THEN LET k == FDiv(FSub(t, Dec(3, 10)), Dec(35, 100))
         IN  <<FAdd(Dec(18, 100), FMul(k, Dec(10, 100))),
               FAdd(Dec(38, 100), FMul(k, Dec(12, 100))),
               Dec(10, 100)>>
    ELSE IF FLt(t, Dec(85, 100))
    THEN LET k == FDiv(FSub(t, Dec(65, 100)), Dec(2, 10))
         IN  <<FAdd(Dec(42, 100), FMul(k, Dec(28, 100))),
               FAdd(Dec(38, 100), FMul(k, Dec(25, 100))),
               FAdd(Dec(30, 100), FMul(k, Dec(25, 100)))>>
    ELSE LET k == FDiv(FSub(t, Dec(85, 100)), Dec(15, 100))
         IN  <<FAdd(Dec(70, 100), FMul(k, Dec(30, 100))),
               FAdd(Dec(70, 100), FMul(k, Dec(30, 100))),
               FAdd(Dec(75, 100), FMul(k, Dec(25, 100)))>>

\* the body of the vertex loops for vertex i = row * size + col
VertexStep(t, i, acc) ==
    LET row == i \div t.size
        col == i % t.size
        x == VertexCoord(t, col)
        z == VertexCoord(t, row)
        y == GetHeight(t, row, col)
        rgb == VertexColor(ReadAt(t.heights, i))
    IN  [positions |-> StoreAt(StoreAt(StoreAt(acc.positions, i * 3, x),
                                       i * 3 + 1, y), i * 3 + 2, z),
         uvs |-> StoreAt(StoreAt(acc.uvs, i * 2, FDiv(FromInt(col), FromInt(t.size - 1))),
                         i * 2 + 1, FDiv(FromInt(row), FromInt(t.size - 1))),
         colors |-> StoreAt(StoreAt(StoreAt(acc.colors, i * 3, rgb[1]),
                                    i * 3 + 1, rgb[2]), i * 3 + 2, rgb[3])]

Triangle2_Flipped(tl, tr, bl, br) == <<tr, br, bl>>

\* the two triangles of a cell with corners tl, tr, bl, br
Triangle1(tl, tr, bl, br) == <<tl, bl, tr>>
Triangle2(tl, tr, bl, br) == <<tr, bl, br>>

\* the body of the index loops for cell k = row * (size - 1) + col
IndexStep(t, k, acc) ==
    LET row == k \div (t.size - 1)
        col == k % (t.size - 1)
        tl == row * t.size + col
        tr == tl + 1
        bl == (row + 1) * t.size + col
        br == bl + 1
        t1 == Triangle1(tl, tr, bl, br)
        t2 == Triangle2(tl, tr, bl, br)
        i == acc.idx
    IN  [indices |-> StoreIndex(StoreIndex(StoreIndex(StoreIndex(StoreIndex(StoreIndex(
                         acc.indices, i, t1[1]), i + 1, t1[2]), i + 2, t1[3]),
                         i + 3, t2[1]), i + 4, t2[2]), i + 5, t2[3]),
         idx |-> i + 6]

\* normals[vi * 3 + k] += _normal.k for k = x, y, z
Accumulate(normals, vi, n) ==
    StoreAt(StoreAt(StoreAt(normals,
        vi * 3, FAdd(ReadAt(normals, vi * 3), n.x)),
        vi * 3 + 1, FAdd(ReadAt(normals, vi * 3 + 1), n.y)),
        vi * 3 + 2, FAdd(ReadAt(normals, vi * 3 + 2), n.z))

\* the body of the face loop for triangle j, whose corners are indices[3j ..];
\* faces keeps the face normal of each triangle
FaceStep(positions, indices, j, acc) ==
    LET a == ReadAt(indices, 3 * j)
        b == ReadAt(indices, 3 * j + 1)
        c == ReadAt(indices, 3 * j + 2)
        v0 == FromArray(positions, a * 3)
        v1 == FromArray(positions, b * 3)
        v2 == FromArray(positions, c * 3)
        edge1 == SubVectors(v1, v0)
        edge2 == SubVectors(v2, v0)
        normal == Normalize(CrossVectors(edge1, edge2))
    IN  [normals |-> Accumulate(Accumulate(Accumulate(acc.normals, a, normal),
                                           b, normal), c, normal),
         faces |-> Append(acc.faces, normal)]

\* the body of the last loop: normalize the normal of vertex i
NormalizeStep(i, normals) ==
    LET n == Normalize(FromArray(normals, i * 3))
    IN  StoreAt(StoreAt(StoreAt(normals, i * 3, n.x), i * 3 + 1, n.y), i * 3 + 2, n.z)

\* the four loops of buildMesh, each over lo .. hi-1 in order
RECURSIVE VertexLoop(_, _, _, _)
\* the vertex loops
VertexLoop(t, lo, hi, acc) ==
    IF lo >= hi THEN acc
    ELSE IF hi = lo + 1 THEN VertexStep(t, lo, acc)
    ELSE LET mid == (lo + hi) \div 2
         IN  Only({VertexLoop(t, mid, hi, left) : left \in {VertexLoop(t, lo, mid, acc)}})
RECURSIVE IndexLoop(_, _, _, _)
\* the index loops
IndexLoop(t, lo, hi, acc) ==
    IF lo >= hi THEN acc
    ELSE IF hi = lo + 1 THEN IndexStep(t, lo, acc)
    ELSE LET mid == (lo + hi) \div 2
         IN  Only({IndexLoop(t, mid, hi, left) : left \in {IndexLoop(t, lo, mid, acc)}})
RECURSIVE FaceLoop(_, _, _, _, _)
\* the face loop
FaceLoop(positions, indices, lo, hi, acc) ==
    IF lo >= hi THEN acc
    ELSE IF hi = lo + 1 THEN FaceStep(positions, indices, lo, acc)
    ELSE LET mid == (lo + hi) \div 2
         IN  Only({FaceLoop(positions, indices, mid, hi, left) : left \in {FaceLoop(positions, indices, lo, mid, acc)}})
RECURSIVE NormalizeLoop(_, _, _)
\* the normalizing loop
NormalizeLoop(lo, hi, acc) ==
    IF lo >= hi THEN acc
    ELSE IF hi = lo + 1 THEN NormalizeStep(lo, acc)
    ELSE LET mid == (lo + hi) \div 2
         IN  Only({NormalizeLoop(mid, hi, left) : left \in {NormalizeLoop(lo, mid, acc)}})

\* the mesh: its attributes, and for the record the face normals and the
\* normals as accumulated before the last loop
BuildMesh(t) ==
    LET vertCount == t.size * t.size
        cellCount == (t.size - 1) * (t.size - 1)
        Mesh(verts, cells, faced, normals) ==
            [name |-> "terrain", receiveShadow |-> TRUE, castShadow |-> FALSE,
             side |-> "FrontSide", vertexColors |-> TRUE,
             position |-> verts.positions, normal |-> normals,
             uv |-> verts.uvs, color |-> verts.colors, index |-> cells.indices,
             faces |-> faced.faces, sums |-> faced.normals]
    IN  Only(UNION UNION UNION
          {{{{Mesh(verts, cells, faced, normals) :
                normals \in {NormalizeLoop(0, vertCount, faced.normals)}} :
              faced \in {FaceLoop(verts.positions, cells.indices, 0,
                                  Len(cells.indices) \div 3,
                                  [normals |-> ZeroArray(vertCount * 3),
                                   faces |-> <<>>])}} :
            cells \in {IndexLoop(t, 0, cellCount,
                                 [indices |-> ZeroIndices(cellCount * 6), idx |-> 0])}} :
          verts \in {VertexLoop(t, 0, vertCount,
                                [positions |-> ZeroArray(vertCount * 3),
                                 uvs |-> ZeroArray(vertCount * 2),
                                 colors |-> ZeroArray(vertCount * 3)])}})

MeshGrids(size) ==
    {FlatGrid(size, v) : v \in {Zero, Half, One}}
        \cup {SpikeGrid(size, k, Zero, One) : k \in 1..(size * size)}

MeshPlacements ==
    {[worldSize |-> FromInt(w), heightScale |-> FromInt(p[1]), heightOffset |-> FromInt(p[2])] :
        w \in {4, 8}, p \in {<<10, 0>>, <<14, 1>>}}

MeshInit ==
    /\ CtlIdle
    /\ noise = NoNoise /\ out = NoCall
    /\ \E size \in 2..MaxMeshSize : \E h \in MeshGrids(size) : \E p \in MeshPlacements :
           tb = TerrainBuilder(h, size, p.worldSize, p.heightScale, p.heightOffset)

CallBuildMesh ==
    /\ out = NoCall
    /\ out' = [op |-> "buildMesh", ret |-> BuildMesh(tb)]
    /\ UNCHANGED <<tb, noise>>

MeshNext ==
    \/ CallBuildMesh /\ UNCHANGED <<mainVars, ctlVars>>
    \/ Return /\ UNCHANGED <<mainVars, ctlVars>>

SpecMesh == MeshInit /\ [][MeshNext]_vars

Up == Vec(Zero, One, Zero)

\* C8: for a flat grid of size N, buildMesh emits N*N vertices and
\* 6*(N-1)^2 indices; the face normal of each of the two triangles of every
\* cell points to +Y; every vertex is a corner of some triangle; every
\* accumulated vertex normal is a positive multiple of (0,1,0), and (0,1,0)
\* once normalized.
C8_FlatMeshNormalsUp ==
    (out.op = "buildMesh" /\ IsFlat(tb.heights)) =>
        LET n == tb.size
            m == out.ret
        IN  /\ Len(m.position) = 3 * n * n
            /\ Len(m.normal) = 3 * n * n
            /\ Len(m.index) = 6 * (n - 1) * (n - 1)
            /\ Len(m.faces) = 2 * (n - 1) * (n - 1)
            /\ \A j \in 1..Len(m.faces) :
                   /\ m.faces[j].x = Zero /\ m.faces[j].z = Zero
                   /\ FLt(Zero, m.faces[j].y)
            /\ \A v \in 0..(n * n - 1) :
                   /\ \E k \in 1..Len(m.index) : m.index[k] = v
                   /\ m.sums[3 * v + 1] = Zero /\ m.sums[3 * v + 3] = Zero
                   /\ FLt(Zero, m.sums[3 * v + 2])
                   /\ FromArray(m.normal, 3 * v) = Up

\* the mesh of a flat 3 x 3 grid: the vertex in the middle is a corner of six
\* triangles, a corner vertex of one or two
C8_Witness ==
    /\ out.op = "buildMesh" /\ IsFlat(tb.heights) /\ tb.size = 3
    /\ Len(out.ret.index) = 24
    /\ out.ret.sums[3 * 4 + 2] = FromInt(6)
    /\ out.ret.sums[2] = One
    /\ FromArray(out.ret.normal, 3 * 4) = Up

---------------------------------------------------------------------------
(* generateProceduralHeightmap (src/src/utils/heightmap.js).  The values    *)
(* fractalNoise returns are an input, noise.raw; its value at (0, 0) is 0   *)
(* for every size, since noise(0, 0) = sin(0) * 43758.5453123 = 0.          *)

\* largest size of the generated maps
MaxGenSize == 2

\* values of fractalNoise: Numbers, some of them not Float32 values
RawValues == {Zero, <<-1, 8>>, <<33, 64>>, <<35, 64>>, <<3, 4>>}

\* the body of the sampling loops for sample k = row * size + col
SampleStep(nz, k, acc) ==
    LET h == ReadAt(nz.raw, k)
    IN  [heights |-> StoreAt(acc.heights, k, h),
         minH |-> IF FLt(h, acc.minH) THEN h ELSE acc.minH,
         maxH |-> IF FLt(acc.maxH, h) THEN h ELSE acc.maxH]

RECURSIVE SampleLoop(_, _, _, _)
SampleLoop(nz, lo, hi, acc) ==
    IF lo >= hi THEN acc
    ELSE IF hi = lo + 1 THEN SampleStep(nz, lo, acc)
    ELSE LET mid == (lo + hi) \div 2
         IN  Only({SampleLoop(nz, mid, hi, left) : left \in {SampleLoop(nz, lo, mid, acc)}})

\* heights[i] = (heights[i] - minH) / range
ScaleStep(m, i, heights) ==
    StoreAt(heights, i, FDiv(FSub(ReadAt(heights, i), m.minH), m.range))

RECURSIVE ScaleLoop(_, _, _, _)
ScaleLoop(m, lo, hi, acc) ==
    IF lo >= hi THEN acc
    ELSE IF hi = lo + 1 THEN ScaleStep(m, lo, acc)
    ELSE LET mid == (lo + hi) \div 2
         IN  Only({ScaleLoop(m, mid, hi, left) : left \in {ScaleLoop(m, lo, mid, acc)}})

GenerateProceduralHeightmap(nz) ==
    LET n == nz.size * nz.size
    IN  Only(UNION
          {{[heights |-> ScaleLoop([minH |-> sampled.minH,
                                    range |-> FSub(sampled.maxH, sampled.minH)],
                                   0, Len(sampled.heights), sampled.heights),
             size |-> nz.size, minH |-> 0, maxH |-> 1] :
              sampled \in {SampleLoop(nz, 0, n,
                                      [heights |-> ZeroArray(n),
                                       minH |-> PosInf, maxH |-> NegInf])}}})

GenInit ==
    /\ CtlIdle
    /\ tb = NoTerrain /\ out = NoCall
    /\ \E size \in 1..MaxGenSize :
       \E raw \in [1..(size * size) -> RawValues] :
           /\ raw[1] = Zero
           /\ noise = [size |-> size, raw |-> raw]

CallGenerate ==
    /\ out = NoCall
    /\ out' = [op |-> "generateProceduralHeightmap",
               ret |-> GenerateProceduralHeightmap(noise)]
    /\ UNCHANGED <<tb, noise>>

GenNext ==
    \/ CallGenerate /\ UNCHANGED <<mainVars, ctlVars>>
    \/ Return /\ UNCHANGED <<mainVars, ctlVars>>

SpecGen == GenInit /\ [][GenNext]_vars

\* C7: for any size and any raw values, all equal or not, every sample of
\* the generated map lies in [0, 1], some sample is 0 and some sample is 1,
\* and the map has size * size samples.
C7_NormalizedRange ==
    out.op = "generateProceduralHeightmap" =>
        LET h == out.ret.heights
        IN  /\ Len(h) = noise.size * noise.size
            /\ \A i \in 1..Len(h) : FLe(Zero, h[i]) /\ FLe(h[i], One)
            /\ \E i \in 1..Len(h) : h[i] = Zero
            /\ \E i \in 1..Len(h) : h[i] = One

---------------------------------------------------------------------------
(* TerrainBuilder under any configuration, the degenerate ones included:    *)
(* the constructor (terrain.js:10-24) and buildRapierHeightfield check      *)
(* nothing, so every configuration yields an instance.                      *)

\* largest grid size of the configurations
MaxConfigSize == 3

\* heights arrays: of size * size samples, one short of it and one beyond it
ConfigHeights(size) ==
    {FlatGrid(0, Half)}
        \cup {[i \in 1..n |-> Half] :
                n \in {m \in {size * size - 1, size * size, size * size + 1} : m >= 0}}

ConfigWorldSizes == {FromInt(-4), Zero, FromInt(4)}

ConfigInit ==
    /\ CtlIdle
    /\ noise = NoNoise /\ out = NoCall
    /\ tb = NoTerrain

\* new TerrainBuilder({heights, size, worldSize, heightScale, heightOffset})
Construct(heights, size, worldSize, heightScale, heightOffset) ==
    /\ tb = NoTerrain /\ out = NoCall
    /\ tb' = TerrainBuilder(heights, size, worldSize, heightScale, heightOffset)
    /\ out' = [op |-> "constructor", threw |-> FALSE]
    /\ UNCHANGED noise

ConfigNext ==
    \/ \E size \in 0..MaxConfigSize : \E h \in ConfigHeights(size) :
       \E w \in ConfigWorldSizes : \E p \in {<<10, 0>>, <<14, 1>>} :
           /\ Construct(h, size, w, FromInt(p[1]), FromInt(p[2]))
           /\ UNCHANGED <<mainVars, ctlVars>>
    \/ tb # NoTerrain /\ CallBuildRapierHeightfield /\ UNCHANGED <<mainVars, ctlVars>>
    \/ Return /\ UNCHANGED <<mainVars, ctlVars>>

SpecConfig == ConfigInit /\ [][ConfigNext]_vars

\* what the specification asks of a configuration
ValidConfig(t) ==
    /\ t.size >= 2
    /\ FLt(Zero, t.worldSize)
    /\ IsFinite(t.cellSize) /\ FLt(Zero, t.cellSize)
    /\ Len(t.heights) = t.size * t.size

\* C11: a TerrainBuilder exists only for size >= 2, worldSize > 0 (so that
\* cellSize > 0 and finite) and size * size samples, and
\* buildRapierHeightfield returns a descriptor only for such a builder: the
\* other configurations abort with an error.
C11_InvalidConfigFailsFast ==
    /\ tb # NoTerrain => ValidConfig(tb)
    /\ out.op = "buildRapierHeightfield" => ValidConfig(tb)

---------------------------------------------------------------------------
(* The frame loop with a character controller whose                         *)
(* computeColliderMovement can throw.  update(dt) has no try/catch          *)
(* (controller.js:119-186) and neither has loop() (main.js:124-142): the    *)
(* exception leaves update at line 160 and loop at line 133, after          *)
(* requestAnimationFrame(loop) of line 125 has scheduled the next frame.    *)

\* update(dt) with body.translation() = cur, computeColliderMovement throwing
UpdateThrows(cur, dt) ==
    LET cd1   == CooldownAfter(jumpCooldown, dt)
        speed == Speed(keys["ShiftLeft"])
        mov   == Mov(keys, yaw, speed)
        v1    == velY + GRAVITY * dt
        v2    == GroundClamp(isGrounded, v1)
        jump  == JumpTriggered(keys["Space"], isGrounded, cd1)
        v3    == IF jump THEN JUMP_FORCE ELSE v2
        cd2   == IF jump THEN JUMP_COOLDOWN ELSE cd1
        des   == Vec(mov.x * dt, v3 * dt, mov.z * dt)
    IN  /\ v3 >= GRAVITY * MaxFallTicks
        /\ velY' = v3
        /\ jumpCooldown' = cd2
        /\ sinceJump' = IF jump THEN 0
                        ELSE IF sinceJump < 0 THEN sinceJump
                        ELSE Min(sinceJump + dt, JUMP_COOLDOWN + MaxDt)
        /\ frame' = [op |-> "throw", dt |-> dt, cur |-> cur, desired |-> des,
                     target |-> nextTrans]
        /\ UNCHANGED <<keys, yaw, pitch, locked, isGrounded, nextTrans, pending,
                       camera>>

\* one call of loop() in which player.update(dt) throws: world.step() has run
\* and the next call of loop() is already requested
LoopFrameThrows(dt) ==
    /\ mainPc = "loop"
    /\ translation' = nextTrans
    /\ UpdateThrows(nextTrans, dt)
    /\ UNCHANGED <<mainVars, terrVars>>

ThrowNext ==
    \/ RapierInit
    \/ StartLoad
    \/ ImgOnLoad
    \/ ImgOnError
    \/ ResumeLoad
    \/ BuildTerrain
    \/ Setup
    \/ StartLoop
    \/ \E dt \in 0..MAX_FRAME_DT : LoopFrame(dt)
    \/ \E dt \in 0..MAX_FRAME_DT : LoopFrameThrows(dt)
    \/ \E k \in {"KeyW"} : Listening /\ KeyDown(k) /\ UNCHANGED <<mainVars, terrVars>>
    \/ \E k \in {"KeyW"} : Listening /\ KeyUp(k) /\ UNCHANGED <<mainVars, terrVars>>
    \/ \E mx \in {1}, my \in {3} : Listening /\ MouseMove(mx, my) /\ UNCHANGED <<mainVars, terrVars>>
    \/ \E l \in BOOLEAN : Listening /\ PointerLockChange(l) /\ UNCHANGED <<mainVars, terrVars>>

SpecThrow == MainInit /\ [][ThrowNext]_vars

\* C12: after a frame whose resolver threw, the body's next position is the
\* position of that frame plus the desired displacement (horizontal move * dt,
\* velY * dt), uncorrected, and the frame loop is still running.
C12_ThrowingResolverMovesFreely ==
    frame.op = "throw" =>
        /\ nextTrans = NextTranslation(frame.cur, frame.desired)
        /\ mainPc = "loop"

\* the half of C12 that the code does satisfy: the loop keeps running
C12_LoopSurvivesThrow == frame.op = "throw" => mainPc = "loop"

---------------------------------------------------------------------------
(* The rendered surface (buildMesh) against the collision surface           *)
(* (buildRapierHeightfield, handed to ColliderDesc.heightfield on a fixed   *)
(* body at the origin, main.js:98-104)                                      *)

\* the height of the collision surface at grid vertex (row, col): the
\* exported sample at row i, col j is heights[i + j * (nrows + 1)], scaled by
\* scale.y in single precision
CollisionHeight(field, row, col) ==
    ToFloat32(FMul(ReadAt(field.heights, row + col * (field.nrows + 1)), field.scale.y))

\* the Y that buildMesh wrote for grid vertex (row, col)
MeshHeight(mesh, size, row, col) == ReadAt(mesh.position, (row * size + col) * 3 + 1)

SurfaceNext ==
    \/ CallBuildMesh /\ UNCHANGED <<mainVars, ctlVars>>
    \/ CallBuildRapierHeightfield /\ UNCHANGED <<mainVars, ctlVars>>
    \/ Return /\ UNCHANGED <<mainVars, ctlVars>>

SpecSurface == MeshInit /\ [][SurfaceNext]_vars

\* C13: for every configuration, heightOffset # 0 included, and every grid
\* vertex (row, col), the collision height of the heightfield that
\* buildRapierHeightfield exports (sample at (row, col) times scale.y) equals
\* the vertex Y that buildMesh writes for (row, col).
C13_SurfacesAgree ==
    out.op = "buildMesh" =>
        \A field \in {BuildRapierHeightfield(tb)} :
            \A row \in 0..(tb.size - 1), col \in 0..(tb.size - 1) :
                CollisionHeight(field, row, col) = MeshHeight(out.ret, tb.size, row, col)

\* what the code does satisfy: the two surfaces differ by heightOffset, so
\* they agree for the configurations with heightOffset = 0
C13_SurfacesDifferByOffset ==
    out.op = "buildMesh" =>
        \A field \in {BuildRapierHeightfield(tb)} :
            \A row \in 0..(tb.size - 1), col \in 0..(tb.size - 1) :
                MeshHeight(out.ret, tb.size, row, col)
                    = ToFloat32(FAdd(CollisionHeight(field, row, col), tb.heightOffset))

=============================================================================
